---- MODULE Spec2Model ----
(***************************************************************************)
(* Model of the customer.io -> segment.com webhook forwarder (the final    *)
(* iteration, src/unnamed/part_001): the legacy /webhook handler and the   *)
(* generic handle() behind /webhook/identify and /webhook/track.           *)
(*                                                                         *)
(* Each in-flight request is one goroutine of net/http; its position is    *)
(* pc[r] and its locals are the r-indexed variables.  Strings are TLA+     *)
(* strings, except timestamps, which are sequences of one-character        *)
(* strings so that their syntax can be inspected.                          *)
(***************************************************************************)
EXTENDS Integers, Sequences, FiniteSets, TLC

\* Number of requests that may be in flight at once (SpecConc).
NumReq == 2

Reqs == 1..NumReq

(***************************************************************************)
(* Values: Go nil / JSON null or absent, JSON strings and JSON numbers.    *)
(***************************************************************************)
Nil == [t |-> "nil"]
Str(s) == [t |-> "str", v |-> s]
Num(n) == [t |-> "num", n |-> n]
Map(f) == [t |-> "map", m |-> f]

IsStr(x) == x.t = "str"
IsNum(x) == x.t = "num"

\* m[k] on a Go map[string]interface{}: nil for a nil map, an absent key and
\* a JSON null value alike.
Lookup(m, k) ==
    IF m = Nil THEN Nil
    ELSE IF k \in DOMAIN m.m THEN m.m[k] ELSE Nil

\* delete(m, k): no-op on a nil map or an absent key.
Delete(m, k) ==
    IF m = Nil THEN Nil
    ELSE Map([x \in (DOMAIN m.m) \ {k} |-> m.m[x]])

(***************************************************************************)
(* time.Unix(ts, 0).Format(time.RFC3339) in the zone of the process.       *)
(***************************************************************************)
Digit == <<"0", "1", "2", "3", "4", "5", "6", "7", "8", "9">>

Pad2(n) == <<Digit[((n \div 10) % 10) + 1], Digit[(n % 10) + 1]>>

\* Years are printed with at least four digits.
PadYear(y) ==
    IF y < 10000
    THEN Pad2(y \div 100) \o Pad2(y % 100)
    ELSE <<Digit[((y \div 10000) % 10) + 1]>> \o Pad2((y \div 100) % 100) \o Pad2(y % 100)

\* Proleptic Gregorian date of a day count since 1970-01-01.
CivilFromDays(days) ==
    LET z   == days + 719468
        era == z \div 146097
        doe == z - era * 146097
        yoe == (doe - (doe \div 1460) + (doe \div 36524) - (doe \div 146096)) \div 365
        doy == doe - (365 * yoe + (yoe \div 4) - (yoe \div 100))
        mp  == (5 * doy + 2) \div 153
        d   == doy - ((153 * mp + 2) \div 5) + 1
        m   == IF mp < 10 THEN mp + 3 ELSE mp - 9
        y   == yoe + era * 400 + (IF m <= 2 THEN 1 ELSE 0)
    IN  [year |-> y, month |-> m, day |-> d]

\* Layout "2006-01-02T15:04:05Z07:00": "Z" in UTC, else a signed hh:mm.
FormatZone(off) ==
    IF off = 0 THEN <<"Z">>
    ELSE LET a == IF off < 0 THEN 0 - off ELSE off
         IN  <<IF off < 0 THEN "-" ELSE "+">>
                \o Pad2(a \div 3600) \o <<":">> \o Pad2((a % 3600) \div 60)

FormatRFC3339(ts, off) ==
    LET local == ts + off
        date  == CivilFromDays(local \div 86400)
        sod   == local % 86400
    IN  PadYear(date.year) \o <<"-">> \o Pad2(date.month) \o <<"-">> \o Pad2(date.day)
          \o <<"T">> \o Pad2(sod \div 3600) \o <<":">> \o Pad2((sod % 3600) \div 60)
          \o <<":">> \o Pad2(sod % 60) \o FormatZone(off)

(***************************************************************************)
(* Types of part_001.                                                      *)
(***************************************************************************)
\* Config / ConfigEnv: environment name -> write key.
ConfigOf(envs) == [Envs |-> envs]

ConfigEnv(key) == [SegmentWriteKey |-> key]

\* config.Envs[env] with the comma-ok result; a missing key yields the zero
\* ConfigEnv.
EnvLookup(cfg, env) ==
    IF env \in DOMAIN cfg.Envs THEN cfg.Envs[env] ELSE ConfigEnv("")

EnvMissingAlways(cfg, env) == FALSE

EnvMissing(cfg, env) == env \notin DOMAIN cfg.Envs

\* fmt.Sprintf("Environment %#v does not exist", env)
EnvMessage(env) == "Environment " \o "\"" \o env \o "\"" \o " does not exist"

\* http.Error writes the message followed by a newline.
HttpErrorBody(msg) == msg \o "\n"

\* (*Webhook).EventSource
EventSource(w) ==
    IF w.EventSourceNil # Nil THEN w.EventSourceNil.v ELSE "customerio"

\* (*Webhook).TimestampRFC3339
TimestampRFC3339(w, now, off) ==
    IF w.TimestampNil # Nil THEN FormatRFC3339(w.TimestampNil.n, off)
    ELSE IF w.TimestampIsoNil # Nil THEN w.TimestampIsoNil.v
    ELSE FormatRFC3339(now, off)

(***************************************************************************)
(* encoding/json on the request bytes.  A buffer is described by the JSON  *)
(* text it holds: "empty" (no bytes), "invalid" (malformed, or a short     *)
(* read that left zero bytes behind the text), "null", or "object".        *)
(***************************************************************************)
SyntaxError(b) == b.kind \in {"empty", "invalid"}

\* A JSON value of the wrong type for a string field.
BadString(x) == x # Nil /\ ~IsStr(x)

\* A JSON value of the wrong type for an int field.
BadInt(x) == x # Nil /\ ~IsNum(x)

\* json.Unmarshal(buf, &webhook) with webhook *Webhook: a JSON null leaves
\* the pointer nil and reports no error.
UnmarshalWebhook(b) ==
    IF SyntaxError(b) THEN [err |-> TRUE, v |-> Nil]
    ELSE IF b.kind = "null" THEN [err |-> FALSE, v |-> Nil]
    ELSE [err |-> \/ BadString(b.event_source)
                  \/ BadString(b.event_type)
                  \/ BadString(b.event_id)
                  \/ BadInt(b.timestamp)
                  \/ BadString(b.timestamp_iso),
          v   |-> [EventSourceNil  |-> IF BadString(b.event_source) THEN Nil ELSE b.event_source,
                   EventType       |-> IF IsStr(b.event_type) THEN b.event_type.v ELSE "",
                   EventID         |-> IF IsStr(b.event_id) THEN b.event_id.v ELSE "",
                   TimestampNil    |-> IF BadInt(b.timestamp) THEN Nil ELSE b.timestamp,
                   TimestampIsoNil |-> IF BadString(b.timestamp_iso) THEN Nil ELSE b.timestamp_iso,
                   Data            |-> b.data]]

\* (*Identify).Unmarshal / (*Track).Unmarshal: json.Unmarshal into the
\* pointer held by the action; the message types belong to analytics-go.
UnmarshalAction(b) ==
    IF SyntaxError(b) THEN [err |-> TRUE, v |-> Nil]
    ELSE IF b.kind = "null" THEN [err |-> FALSE, v |-> Nil]
    ELSE [err |-> BadString(b.userId),
          v   |-> [UserId |-> IF IsStr(b.userId) THEN b.userId.v ELSE "",
                   Name   |-> b.name]]

(***************************************************************************)
(* The /webhook handler's checks and its event-type chain.                 *)
(***************************************************************************)
CustomerIDKeyAbsent(w) ==
    w.Data = Nil \/ "customer_id" \notin DOMAIN w.Data.m

\* webhook.Data["customer_id"] == nil
CustomerIDIsNil(w) == Lookup(w.Data, "customer_id") = Nil

ClassifySpammedRaw(webhookEventType) ==
    IF webhookEventType \in {"email_converted", "email_drafted",
                             "email_dropped", "email_delivered"}
    THEN [suppress |-> TRUE, eventType |-> webhookEventType]
    ELSE [suppress |-> FALSE,
          eventType |->
            CASE webhookEventType = "customer_unsubscribed" -> "Email - unsubscribed"
              [] webhookEventType = "email_bounced" -> "Email - email failed"
              [] webhookEventType = "email_failed" -> "Email - email failed"
              [] webhookEventType = "email_sent" -> "Email - email sent"
              [] webhookEventType = "email_opened" -> "Email - opened email"
              [] webhookEventType = "email_clicked" -> "Email - clicked email"
              [] OTHER -> webhookEventType]

\* The if / else-if chain: eventType starts as the raw type; four types
\* answer 200 at once; seven are renamed.
Classify(webhookEventType) ==
    IF webhookEventType = "customer_unsubscribed"
    THEN [suppress |-> FALSE, eventType |-> "Email - unsubscribed"]
    ELSE IF webhookEventType = "email_converted"
    THEN [suppress |-> TRUE, eventType |-> webhookEventType]
    ELSE IF webhookEventType = "email_drafted"
    THEN [suppress |-> TRUE, eventType |-> webhookEventType]
    ELSE IF webhookEventType = "email_dropped"
    THEN [suppress |-> TRUE, eventType |-> webhookEventType]
    ELSE IF webhookEventType = "email_delivered"
    THEN [suppress |-> TRUE, eventType |-> webhookEventType]
    ELSE IF webhookEventType = "email_bounced"
    THEN [suppress |-> FALSE, eventType |-> "Email - email failed"]
    ELSE IF webhookEventType = "email_failed"
    THEN [suppress |-> FALSE, eventType |-> "Email - email failed"]
    ELSE IF webhookEventType = "email_spammed"
    THEN [suppress |-> FALSE, eventType |-> "Email - email failed"]
    ELSE IF webhookEventType = "email_sent"
    THEN [suppress |-> FALSE, eventType |-> "Email - email sent"]
    ELSE IF webhookEventType = "email_opened"
    THEN [suppress |-> FALSE, eventType |-> "Email - opened email"]
    ELSE IF webhookEventType = "email_clicked"
    THEN [suppress |-> FALSE, eventType |-> "Email - clicked email"]
    ELSE [suppress |-> FALSE, eventType |-> webhookEventType]

\* &analytics.Track{UserId, Event, Properties, Context, Message{Timestamp}}
TrackMessage(w, customerID, eventType, now, off) ==
    [UserId     |-> customerID,
     Event      |-> eventType,
     Properties |-> w.Data,
     Context    |-> [event_id |-> w.EventID],
     Timestamp  |-> TimestampRFC3339(w, now, off)]

\* One call on a client made by analytics.New(writeKey).
Call(kind, envConfig, msg, result) ==
    [kind |-> kind, writeKey |-> envConfig.SegmentWriteKey, msg |-> msg,
     result |-> result]

\* Status written after the outbound call returned err (nil or not).
SendStatusInverted(failed) == IF failed THEN 200 ELSE 500

SendStatus(failed) == IF failed THEN 500 ELSE 200

\* fmt.Sprintf("segment.Track failed: %s", err) / "action.Send failed: %s"
SendFailedMessage(prefix, err) == prefix \o " failed: " \o err

(***************************************************************************)
(* Requests.  A request is its route, its env query parameter ("" when     *)
(* absent, as url.Values.Get returns), whether it was sent chunked         *)
(* (r.ContentLength = -1) and the JSON text of its body.                   *)
(***************************************************************************)
SuppressedTypes == {"email_converted", "email_drafted", "email_dropped", "email_delivered"}

RenamedTypes == {"customer_unsubscribed", "email_bounced", "email_failed",
                 "email_spammed", "email_sent", "email_opened", "email_clicked"}

OtherTypes == {"page_viewed"}

ValidIso == <<"2", "0", "2", "4", "-", "0", "2", "-", "2", "9", "T",
              "2", "3", ":", "5", "9", ":", "0", "1", "+", "0", "5", ":", "3", "0">>

BadIso == <<"y", "e", "s", "t", "e", "r", "d", "a", "y">>

EventTypeValues ==
    {Nil, Num(1)} \cup {Str(e) : e \in SuppressedTypes \cup RenamedTypes \cup OtherTypes}

CustomerIDValues == {Nil, Str(""), Str("u1"), Num(7)}

DataValues ==
    {Nil, Map(<<>>), Map([k \in {"variables"} |-> Str("secret")])}
      \cup {Map([k \in {"customer_id"} |-> c]) : c \in CustomerIDValues}
      \cup {Map([k \in {"customer_id", "variables"} |->
                   IF k = "customer_id" THEN c ELSE Str("secret")]) : c \in CustomerIDValues}

WebhookObjects ==
    [kind : {"object"},
     event_source : {Nil, Str("mailer")},
     event_type : EventTypeValues,
     event_id : {Str("e1")},
     timestamp : {Nil, Num(0), Num(1709251199)},
     timestamp_iso : {Nil, Str(ValidIso), Str(BadIso)},
     data : DataValues]

ActionObjects ==
    [kind : {"object"}, userId : {Str("u1"), Num(7)}, name : {"Signed Up"}]

PlainBodies == {[kind |-> "empty"], [kind |-> "invalid"], [kind |-> "null"]}

BodiesOf(route) ==
    PlainBodies \cup (IF route = "/webhook" THEN WebhookObjects ELSE ActionObjects)

Request(route, env, chunked, body) ==
    [route |-> route, env |-> env, chunked |-> chunked, body |-> body]

Inputs ==
    UNION {[route : {route}, env : {"", "prod", "staging", "missing"},
            chunked : BOOLEAN, body : BodiesOf(route)]
           : route \in {"/webhook", "/webhook/identify", "/webhook/track"}}

\* The requests of the concurrent specification.
ConcInputs ==
    {Request("/webhook", "prod", FALSE,
             [kind |-> "object", event_source |-> Nil, event_type |-> Str("email_sent"),
              event_id |-> Str("e1"), timestamp |-> Num(0), timestamp_iso |-> Nil,
              data |-> Map([k \in {"customer_id", "variables"} |->
                              IF k = "customer_id" THEN Str("u1") ELSE Str("secret")])]),
     Request("/webhook", "staging", FALSE,
             [kind |-> "object", event_source |-> Str("mailer"), event_type |-> Str("page_viewed"),
              event_id |-> Str("e1"), timestamp |-> Nil, timestamp_iso |-> Str(ValidIso),
              data |-> Map([k \in {"customer_id"} |-> Str("")])]),
     Request("/webhook", "prod", FALSE,
             [kind |-> "object", event_source |-> Nil, event_type |-> Str("email_delivered"),
              event_id |-> Str("e1"), timestamp |-> Nil, timestamp_iso |-> Nil,
              data |-> Nil]),
     Request("/webhook", "prod", FALSE, [kind |-> "null"]),
     Request("/webhook/track", "staging", FALSE,
             [kind |-> "object", userId |-> Str("u1"), name |-> "Signed Up"]),
     Request("/webhook/identify", "missing", TRUE, [kind |-> "invalid"])}

\* Size in bytes of the body text; only its sign matters to the handlers.
Size(b) ==
    CASE b.kind = "empty" -> 0
      [] b.kind = "invalid" -> 1
      [] b.kind = "null" -> 4
      [] OTHER -> 2

\* r.ContentLength
ContentLength(i) == IF i.chunked THEN 0 - 1 ELSE Size(i.body)

\* buf after make([]byte, n) and one r.Body.Read(buf): the whole text, or,
\* when the read came back short, the text's head followed by zero bytes.
ReadBuf(i, full) ==
    IF ContentLength(i) = 0 THEN [kind |-> "empty"]
    ELSE IF full THEN i.body
    ELSE [kind |-> "invalid"]

\* Errors the analytics client may return.
SendErrors == {"connection refused"}

\* Wall-clock readings of time.Now().
Nows == {1709251199, 86399}

\* Offsets of the process's local zone, in seconds east of UTC.
Zones == {0, 19800}

(***************************************************************************)
(* State.                                                                  *)
(***************************************************************************)
VARIABLES
    config,      \* the *Config loaded by main
    zone,        \* offset of time.Local
    pc,          \* position of each request's goroutine
    req,         \* the request each goroutine serves
    oracle,      \* what the request's I/O returned: read, clock, send
    envConfig,   \* local envConfig
    buf,         \* local buf
    webhook,     \* local webhook (*Webhook), by storage slot
    action,      \* the Action given to handle, by storage slot
    customerID,  \* local customerID
    eventType,   \* local eventType
    status,      \* status written to the ResponseWriter, 0 if none
    respBody,    \* body written to the ResponseWriter
    calls        \* calls made on the analytics client, per request

vars == <<config, zone, pc, req, oracle, envConfig, buf, webhook, action,
          customerID, eventType, status, respBody, calls>>

NoRequest == Request("", "", FALSE, [kind |-> "empty"])

NoOracle == [full |-> TRUE, now |-> 0, send |-> "ok"]

NoBuf == [kind |-> "empty"]

\* One package-level variable for every request.
SlotShared(r) == CHOOSE s \in Reqs : \A t \in Reqs : s <= t

\* Where a request keeps the objects it decodes into: `var webhook *Webhook`
\* is a local of the closure, &Identify{} / &Track{} are allocated per call.
Slot(r) == r

Configs ==
    {ConfigOf([e \in {"prod", "staging"} |->
                 ConfigEnv(IF e = "prod" THEN "key-prod" ELSE "key-staging")])}

Init ==
    /\ config \in Configs
    /\ zone \in Zones
    /\ pc = [r \in Reqs |-> "idle"]
    /\ req = [r \in Reqs |-> NoRequest]
    /\ oracle = [r \in Reqs |-> NoOracle]
    /\ envConfig = [r \in Reqs |-> ConfigEnv("")]
    /\ buf = [r \in Reqs |-> NoBuf]
    /\ webhook = [r \in Reqs |-> Nil]
    /\ action = [r \in Reqs |-> Nil]
    /\ customerID = [r \in Reqs |-> ""]
    /\ eventType = [r \in Reqs |-> ""]
    /\ status = [r \in Reqs |-> 0]
    /\ respBody = [r \in Reqs |-> ""]
    /\ calls = [r \in Reqs |-> <<>>]

(***************************************************************************)
(* Steps of a request's goroutine.                                         *)
(***************************************************************************)
\* WriteHeader(code) and Write(body), then return.
Reply(r, code, body) ==
    /\ status' = [status EXCEPT ![r] = code]
    /\ respBody' = [respBody EXCEPT ![r] = body]
    /\ pc' = [pc EXCEPT ![r] = "done"]

\* A run-time panic: net/http recovers it in the connection's goroutine and
\* closes the connection; nothing is written.
Panic(r) ==
    /\ pc' = [pc EXCEPT ![r] = "panicked"]
    /\ UNCHANGED <<status, respBody>>

\* The server hands request i to a new goroutine running its route's handler.
Receive(r, i) ==
    /\ pc[r] = "idle"
    /\ req' = [req EXCEPT ![r] = i]
    /\ pc' = [pc EXCEPT ![r] = "env"]
    /\ UNCHANGED <<config, zone, oracle, envConfig, buf, webhook, action,
                   customerID, eventType, status, respBody, calls>>

\* query.Get("env"); config.Envs[env]; 400 when absent from the config.
CheckEnv(r) ==
    /\ pc[r] = "env"
    /\ IF EnvMissing(config, req[r].env)
       THEN /\ Reply(r, 400, HttpErrorBody(EnvMessage(req[r].env)))
            /\ UNCHANGED envConfig
       ELSE /\ envConfig' = [envConfig EXCEPT ![r] = EnvLookup(config, req[r].env)]
            /\ pc' = [pc EXCEPT ![r] = "read"]
            /\ UNCHANGED <<status, respBody>>
    /\ UNCHANGED <<config, zone, req, oracle, buf, webhook, action,
                   customerID, eventType, calls>>

\* buf := make([]byte, r.ContentLength); r.Body.Read(buf).  make panics on a
\* negative length.
ReadBody(r, full) ==
    /\ pc[r] = "read"
    /\ IF ContentLength(req[r]) < 0
       THEN /\ full
            /\ Panic(r)
            /\ UNCHANGED <<buf, oracle>>
       ELSE /\ (ContentLength(req[r]) = 0) => full
            /\ buf' = [buf EXCEPT ![r] = ReadBuf(req[r], full)]
            /\ oracle' = [oracle EXCEPT ![r].full = full]
            /\ pc' = [pc EXCEPT ![r] = "decode"]
            /\ UNCHANGED <<status, respBody>>
    /\ UNCHANGED <<config, zone, req, envConfig, webhook, action,
                   customerID, eventType, calls>>

\* /webhook: var webhook *Webhook; json.Unmarshal(buf, &webhook); 406 on err.
WebhookDecode(r) ==
    /\ pc[r] = "decode"
    /\ req[r].route = "/webhook"
    /\ LET res == UnmarshalWebhook(buf[r])
       IN  /\ webhook' = [webhook EXCEPT ![Slot(r)] = res.v]
           /\ IF res.err
              THEN Reply(r, 406, "bad request")
              ELSE /\ pc' = [pc EXCEPT ![r] = "validate"]
                   /\ UNCHANGED <<status, respBody>>
    /\ UNCHANGED <<config, zone, req, oracle, envConfig, buf, action,
                   customerID, eventType, calls>>

\* /webhook: delete(webhook.Data, "variables"); the customer_id nil check;
\* the unchecked type assertion .(string).  webhook.Data on a nil webhook
\* is a nil dereference.
WebhookValidate(r) ==
    /\ pc[r] = "validate"
    /\ IF webhook[Slot(r)] = Nil
       THEN /\ Panic(r)
            /\ UNCHANGED <<webhook, customerID>>
       ELSE LET w == [webhook[Slot(r)] EXCEPT !.Data = Delete(@, "variables")]
            IN  /\ webhook' = [webhook EXCEPT ![Slot(r)] = w]
                /\ IF CustomerIDIsNil(w)
                   THEN /\ Reply(r, 406, HttpErrorBody("data.customer_id is nil"))
                        /\ UNCHANGED customerID
                   ELSE IF ~IsStr(Lookup(w.Data, "customer_id"))
                   THEN /\ Panic(r)
                        /\ UNCHANGED customerID
                   ELSE /\ customerID' = [customerID EXCEPT
                                            ![r] = Lookup(w.Data, "customer_id").v]
                        /\ pc' = [pc EXCEPT ![r] = "classify"]
                        /\ UNCHANGED <<status, respBody>>
    /\ UNCHANGED <<config, zone, req, oracle, envConfig, buf, action,
                   eventType, calls>>

\* /webhook: the event-type chain; a suppressed type is answered 200 "ok".
WebhookClassify(r) ==
    /\ pc[r] = "classify"
    /\ LET c == Classify(webhook[Slot(r)].EventType)
       IN  IF c.suppress
           THEN /\ Reply(r, 200, "ok")
                /\ UNCHANGED eventType
           ELSE /\ eventType' = [eventType EXCEPT ![r] = c.eventType]
                /\ pc' = [pc EXCEPT ![r] = "send"]
                /\ UNCHANGED <<status, respBody>>
    /\ UNCHANGED <<config, zone, req, oracle, envConfig, buf, webhook, action,
                   customerID, calls>>

\* The clock is read only when the webhook carries neither timestamp.
ReadsClock(w) == w.TimestampNil = Nil /\ w.TimestampIsoNil = Nil

\* /webhook: analytics.New(key); segment.Track(...); 500 on err, else 200.
WebhookSend(r, now, result) ==
    /\ pc[r] = "send"
    /\ req[r].route = "/webhook"
    /\ ReadsClock(webhook[Slot(r)]) \/ now = NoOracle.now
    /\ LET msg == TrackMessage(webhook[Slot(r)], customerID[r], eventType[r], now, zone)
       IN  calls' = [calls EXCEPT ![r] = Append(@, Call("Track", envConfig[r], msg, result))]
    /\ oracle' = [oracle EXCEPT ![r].now = now, ![r].send = result]
    /\ Reply(r, SendStatus(result # "ok"),
             IF result # "ok"
             THEN HttpErrorBody(SendFailedMessage("segment.Track", result))
             ELSE "ok")
    /\ UNCHANGED <<config, zone, req, envConfig, buf, webhook, action,
                   customerID, eventType>>

\* The Action a route passes to handle.
ActionKind(route) == IF route = "/webhook/identify" THEN "Identify" ELSE "Track"

\* handle: action.Unmarshal(buf); 406 on err.
HandleDecode(r) ==
    /\ pc[r] = "decode"
    /\ req[r].route # "/webhook"
    /\ LET res == UnmarshalAction(buf[r])
       IN  /\ action' = [action EXCEPT ![Slot(r)] = res.v]
           /\ IF res.err
              THEN Reply(r, 406, "bad request")
              ELSE /\ pc' = [pc EXCEPT ![r] = "send"]
                   /\ UNCHANGED <<status, respBody>>
    /\ UNCHANGED <<config, zone, req, oracle, envConfig, buf, webhook,
                   customerID, eventType, calls>>

\* Results of client.Identify / client.Track: nil, an error, or, when handed
\* the nil message a JSON null body leaves behind, possibly a panic.
SendResults(msg) ==
    {"ok"} \cup SendErrors \cup (IF msg = Nil THEN {"panic"} ELSE {})

\* handle: analytics.New(key); action.Send(segment); 500 on err, else 200.
HandleSend(r, result) ==
    /\ pc[r] = "send"
    /\ req[r].route # "/webhook"
    /\ result \in SendResults(action[Slot(r)])
    /\ calls' = [calls EXCEPT ![r] =
                   Append(@, Call(ActionKind(req[r].route), envConfig[r],
                                  action[Slot(r)], result))]
    /\ oracle' = [oracle EXCEPT ![r].send = result]
    /\ IF result = "panic"
       THEN Panic(r)
       ELSE Reply(r, SendStatus(result # "ok"),
                  IF result # "ok"
                  THEN HttpErrorBody(SendFailedMessage("action.Send", result))
                  ELSE "ok")
    /\ UNCHANGED <<config, zone, req, envConfig, buf, webhook, action,
                   customerID, eventType>>

\* The handler has returned (or panicked); the goroutine and its locals are
\* gone and the server can take another request.
Finish(r) ==
    /\ pc[r] \in {"done", "panicked"}
    /\ pc' = [pc EXCEPT ![r] = "idle"]
    /\ req' = [req EXCEPT ![r] = NoRequest]
    /\ oracle' = [oracle EXCEPT ![r] = NoOracle]
    /\ envConfig' = [envConfig EXCEPT ![r] = ConfigEnv("")]
    /\ buf' = [buf EXCEPT ![r] = NoBuf]
    /\ webhook' = [webhook EXCEPT ![Slot(r)] = Nil]
    /\ action' = [action EXCEPT ![Slot(r)] = Nil]
    /\ customerID' = [customerID EXCEPT ![r] = ""]
    /\ eventType' = [eventType EXCEPT ![r] = ""]
    /\ status' = [status EXCEPT ![r] = 0]
    /\ respBody' = [respBody EXCEPT ![r] = ""]
    /\ calls' = [calls EXCEPT ![r] = <<>>]
    /\ UNCHANGED <<config, zone>>

Step(r, inputs) ==
    \/ pc[r] = "idle" /\ \E i \in inputs : Receive(r, i)
    \/ CheckEnv(r)
    \/ \E full \in BOOLEAN : ReadBody(r, full)
    \/ WebhookDecode(r)
    \/ WebhookValidate(r)
    \/ WebhookClassify(r)
    \/ pc[r] = "send" /\ \E now \in Nows \cup {NoOracle.now}, result \in {"ok"} \cup SendErrors :
          WebhookSend(r, now, result)
    \/ HandleDecode(r)
    \/ \E result \in {"ok", "panic"} \cup SendErrors : HandleSend(r, result)
    \/ Finish(r)

\* One request at a time, over every request of Inputs.
Next == Step(1, Inputs)

Spec == Init /\ [][Next]_vars

\* Up to NumReq requests in flight, their steps interleaved.
NextConc == \E r \in Reqs : Step(r, ConcInputs)

SpecConc == Init /\ [][NextConc]_vars

(***************************************************************************)
(* The handlers as functions of the request and of what its I/O returned:  *)
(* the outcome of a request served with nothing else in flight.            *)
(***************************************************************************)
Outcome(end, code, body, cs) ==
    [end |-> end, status |-> code, respBody |-> body, calls |-> cs]

SendOutcome(prefix, call) ==
    IF call.result = "panic" THEN Outcome("panicked", 0, "", <<call>>)
    ELSE IF call.result # "ok"
    THEN Outcome("done", SendStatus(TRUE),
                 HttpErrorBody(SendFailedMessage(prefix, call.result)), <<call>>)
    ELSE Outcome("done", SendStatus(FALSE), "ok", <<call>>)

WebhookAlone(ec, b, off, o) ==
    LET res == UnmarshalWebhook(b)
        w   == [res.v EXCEPT !.Data = Delete(@, "variables")]
        c   == Classify(w.EventType)
    IN  IF res.err THEN Outcome("done", 406, "bad request", <<>>)
        ELSE IF res.v = Nil THEN Outcome("panicked", 0, "", <<>>)
        ELSE IF CustomerIDIsNil(w)
        THEN Outcome("done", 406, HttpErrorBody("data.customer_id is nil"), <<>>)
        ELSE IF ~IsStr(Lookup(w.Data, "customer_id")) THEN Outcome("panicked", 0, "", <<>>)
        ELSE IF c.suppress THEN Outcome("done", 200, "ok", <<>>)
        ELSE SendOutcome("segment.Track",
                         Call("Track", ec,
                              TrackMessage(w, Lookup(w.Data, "customer_id").v,
                                           c.eventType, o.now, off),
                              o.send))

ActionAlone(kind, ec, b, o) ==
    LET res == UnmarshalAction(b)
    IN  IF res.err THEN Outcome("done", 406, "bad request", <<>>)
        ELSE SendOutcome("action.Send", Call(kind, ec, res.v, o.send))

HandleAlone(cfg, off, i, o) ==
    IF EnvMissing(cfg, i.env)
    THEN Outcome("done", 400, HttpErrorBody(EnvMessage(i.env)), <<>>)
    ELSE IF ContentLength(i) < 0 THEN Outcome("panicked", 0, "", <<>>)
    ELSE IF i.route = "/webhook"
    THEN WebhookAlone(EnvLookup(cfg, i.env), ReadBuf(i, o.full), off, o)
    ELSE ActionAlone(ActionKind(i.route), EnvLookup(cfg, i.env), ReadBuf(i, o.full), o)

(***************************************************************************)
(* Vocabulary of the properties.                                           *)
(***************************************************************************)
Legacy(r) == req[r].route = "/webhook"

Ended(r) == pc[r] \in {"done", "panicked"}

EnvConfigured(r) == req[r].env \in DOMAIN config.Envs

\* The handler read a JSON object and json.Unmarshal accepted it.
DecodedWebhook(r) ==
    /\ Legacy(r)
    /\ pc[r] \in {"validate", "classify", "send", "done", "panicked"}
    /\ buf[r].kind = "object"
    /\ ~UnmarshalWebhook(buf[r]).err

\* The raw event type of the decoded webhook.
RawType(r) == UnmarshalWebhook(buf[r]).v.EventType

IsDigit(c) == c \in {"0", "1", "2", "3", "4", "5", "6", "7", "8", "9"}

DigitVal(c) == CHOOSE n \in 0..9 : Digit[n + 1] = c

Two(s, i) == 10 * DigitVal(s[i]) + DigitVal(s[i + 1])

Four(s, i) == 100 * Two(s, i) + Two(s, i + 2)

IsLeap(y) == (y % 4 = 0 /\ y % 100 # 0) \/ y % 400 = 0

DaysIn(y, m) ==
    IF m = 2 THEN (IF IsLeap(y) THEN 29 ELSE 28)
    ELSE IF m \in {4, 6, 9, 11} THEN 30 ELSE 31

\* Index of the time-offset part: position 20, or behind a ".digits" fraction.
OffsetStart(s) ==
    IF s[20] # "." THEN 20
    ELSE IF \E j \in 21..Len(s) : ~IsDigit(s[j])
    THEN CHOOSE j \in 21..Len(s) : ~IsDigit(s[j]) /\ \A k \in 21..(j - 1) : IsDigit(s[k])
    ELSE Len(s) + 1

IsTimeOffset(s, k) ==
    /\ k <= Len(s)
    /\ \/ s[k] \in {"Z", "z"} /\ Len(s) = k
       \/ /\ s[k] \in {"+", "-"}
          /\ Len(s) = k + 5
          /\ \A j \in {k + 1, k + 2, k + 4, k + 5} : IsDigit(s[j])
          /\ s[k + 3] = ":"
          /\ Two(s, k + 1) <= 23
          /\ Two(s, k + 4) <= 59

\* date-time of RFC 3339, section 5.6.
IsRFC3339(s) ==
    /\ Len(s) >= 20
    /\ \A j \in {1, 2, 3, 4, 6, 7, 9, 10, 12, 13, 15, 16, 18, 19} : IsDigit(s[j])
    /\ s[5] = "-" /\ s[8] = "-" /\ s[11] \in {"T", "t"} /\ s[14] = ":" /\ s[17] = ":"
    /\ Two(s, 6) \in 1..12
    /\ Two(s, 9) \in 1..DaysIn(Four(s, 1), Two(s, 6))
    /\ Two(s, 12) <= 23 /\ Two(s, 15) <= 59 /\ Two(s, 18) <= 60
    /\ (s[20] = ".") => OffsetStart(s) > 21
    /\ IsTimeOffset(s, OffsetStart(s))

(***************************************************************************)
(* Properties.                                                             *)
(***************************************************************************)

\* C1: on /webhook with a configured env, a request whose body decodes to a
\* webhook of a suppressed event type ends with 200 "ok" and no outbound
\* call, whatever its other fields are.
C1_SuppressedAlwaysOk ==
    \A r \in Reqs :
        (/\ Ended(r)
         /\ EnvConfigured(r)
         /\ DecodedWebhook(r)
         /\ RawType(r) \in SuppressedTypes)
        => (pc[r] = "done" /\ status[r] = 200 /\ respBody[r] = "ok" /\ calls[r] = <<>>)

C2_Table ==
    [t \in RenamedTypes |->
        CASE t = "customer_unsubscribed" -> "Email - unsubscribed"
          [] t \in {"email_bounced", "email_failed", "email_spammed"} -> "Email - email failed"
          [] t = "email_sent" -> "Email - email sent"
          [] t = "email_opened" -> "Email - opened email"
          [] t = "email_clicked" -> "Email - clicked email"]

\* C2: on /webhook, the Track call for a forwarded event type of the
\* classifier table carries exactly the table's event name.
C2_RenamedEventName ==
    \A r \in Reqs :
        (Legacy(r) /\ calls[r] # <<>>)
        => /\ DecodedWebhook(r)
           /\ \A k \in DOMAIN calls[r] :
                /\ calls[r][k].kind = "Track"
                /\ RawType(r) \in RenamedTypes
                     => calls[r][k].msg.Event = C2_Table[RawType(r)]

C2_Witness ==
    \E r \in Reqs :
        /\ Legacy(r) /\ pc[r] = "done" /\ Len(calls[r]) = 1
        /\ req[r].body.event_type = Str("email_spammed")
        /\ calls[r][1].msg.Event = "Email - email failed"

\* C3: on /webhook, the Track call for an event type outside the classifier
\* table is named "<eventSource>:<eventType>", eventSource defaulting to
\* "customerio".
C3_UnknownEventName ==
    \A r \in Reqs :
        (Legacy(r) /\ calls[r] # <<>> /\ RawType(r) \notin SuppressedTypes \cup RenamedTypes)
        => \A k \in DOMAIN calls[r] :
              calls[r][k].msg.Event
                = EventSource(UnmarshalWebhook(buf[r]).v) \o ":" \o RawType(r)

\* C4: on every route a request whose env is not a key of the configuration
\* is answered 400 with a body naming that env, before the body is read, and
\* no outbound call is made.
C4_UnknownEnv ==
    \A r \in Reqs :
        (pc[r] # "idle" /\ ~EnvConfigured(r))
        => /\ pc[r] \in {"env", "done"}
           /\ calls[r] = <<>>
           /\ buf[r] = NoBuf
           /\ pc[r] = "done"
                => /\ status[r] = 400
                   /\ respBody[r] = "Environment \"" \o req[r].env \o "\" does not exist\n"

C4_Witness ==
    \E r \in Reqs :
        /\ pc[r] = "done" /\ status[r] = 400
        /\ req[r].route = "/webhook/track"
        /\ req[r].env = "missing"
        /\ req[r].chunked
        /\ req[r].body.kind = "null"

\* The decoded webhook has no data.customer_id: data absent, key absent, or
\* value null.
NoCustomerID(r) ==
    \/ buf[r].data = Nil
    \/ "customer_id" \notin DOMAIN buf[r].data.m
    \/ buf[r].data.m["customer_id"] = Nil

\* C5: on /webhook with a configured env, a body that decodes to a webhook
\* without data.customer_id is answered 406 and no outbound call is made.
C5_MissingCustomerID ==
    \A r \in Reqs :
        (EnvConfigured(r) /\ DecodedWebhook(r) /\ NoCustomerID(r))
        => /\ calls[r] = <<>>
           /\ pc[r] \in {"validate", "done"}
           /\ pc[r] = "done" => status[r] = 406

C5_Witness ==
    \E r \in Reqs :
        /\ pc[r] = "done" /\ status[r] = 406
        /\ DecodedWebhook(r)
        /\ buf[r].data # Nil
        /\ "customer_id" \in DOMAIN buf[r].data.m
        /\ buf[r].data.m["customer_id"] = Nil

\* The request was acknowledged without forwarding by the event-type chain.
Suppressed(r) == DecodedWebhook(r) /\ RawType(r) \in SuppressedTypes

\* C6: a request makes at most one outbound call; a failed call gives 500
\* with the error in the body, a successful one 200 "ok"; a request that is
\* not suppressed is answered 200 only after exactly one successful call.
C6_SingleCall ==
    \A r \in Reqs :
        /\ Len(calls[r]) <= 1
        /\ (pc[r] = "done" /\ calls[r] # <<>> /\ calls[r][1].result # "ok")
             => /\ status[r] = 500
                /\ \E prefix \in {"segment.Track failed: ", "action.Send failed: "} :
                      respBody[r] = prefix \o calls[r][1].result \o "\n"
        /\ (pc[r] = "done" /\ calls[r] # <<>> /\ calls[r][1].result = "ok")
             => (status[r] = 200 /\ respBody[r] = "ok")
        /\ (status[r] = 200 /\ ~Suppressed(r))
             => (Len(calls[r]) = 1 /\ calls[r][1].result = "ok")

C6_Witness ==
    \E r \in Reqs :
        /\ pc[r] = "done" /\ status[r] = 500
        /\ Len(calls[r]) = 1
        /\ calls[r][1].result = "connection refused"

\* C7: every request ends with exactly one response whose status is 200,
\* 400, 406 or 500; no input makes the handler panic.
C7_AlwaysResponds ==
    \A r \in Reqs :
        Ended(r) => (pc[r] = "done" /\ status[r] \in {200, 400, 406, 500})

\* C8: every Track call of /webhook carries a non-empty userID.
C8_UserIDNonEmpty ==
    \A r \in Reqs :
        Legacy(r) => \A k \in DOMAIN calls[r] : calls[r][k].msg.UserId # ""

\* C9: the timestamp of every Track call of /webhook is a valid RFC 3339
\* date-time.
C9_TimestampValid ==
    \A r \in Reqs :
        Legacy(r) => \A k \in DOMAIN calls[r] : IsRFC3339(calls[r][k].msg.Timestamp)

\* What request r has produced equals what it produces when served alone,
\* and the object it decoded into is the one decoded from its own buffer.
SameAsAlone(r) ==
    LET alone == HandleAlone(config, zone, req[r], oracle[r])
    IN  /\ Ended(r) => /\ pc[r] = alone.end
                       /\ status[r] = alone.status
                       /\ respBody[r] = alone.respBody
                       /\ calls[r] = alone.calls
        /\ ~Ended(r) => (status[r] = 0 /\ calls[r] = <<>>)
        /\ (pc[r] = "validate" /\ Legacy(r))
             => webhook[r] = UnmarshalWebhook(buf[r]).v
        /\ (pc[r] \in {"classify", "send"} /\ Legacy(r))
             => webhook[r] = [UnmarshalWebhook(buf[r]).v EXCEPT !.Data = Delete(@, "variables")]
        /\ (pc[r] = "send" /\ ~Legacy(r))
             => action[r] = UnmarshalAction(buf[r]).v
        /\ pc[r] \in {"read", "decode", "validate", "classify", "send"}
             => envConfig[r] = config.Envs[req[r].env]

\* C10: under every interleaving the configuration is never modified and
\* each request's response and outbound call are those it gets when served
\* alone; nothing one request decoded is seen by another.
C10_Isolation ==
    /\ [](\A r \in Reqs : SameAsAlone(r))
    /\ [][config' = config]_vars

C10_Witness ==
    \E r1, r2 \in Reqs :
        /\ r1 # r2
        /\ pc[r1] = "send" /\ Legacy(r1)
        /\ pc[r2] = "done" /\ ~Legacy(r2) /\ Len(calls[r2]) = 1
        /\ envConfig[r1] # envConfig[r2]

====
